---- MODULE Spec2Model ----
(***************************************************************************)
(* Model of the slonk controller (rice-eclipse/resfet-controller-2):       *)
(*   - the telemetry channel DashChannel (src/src/outgoing.rs),            *)
(*   - the orchestrator's accept loop and handle_client (src/src/main.rs), *)
(*   - the producers (sensor sampler, driver observer), the controller     *)
(*     state guard and the command executor, whose code is in modules of   *)
(*     the crate that main.rs only imports (slonk::data, slonk::execution, *)
(*     slonk::StateGuard); these are modelled from spec.md 4.1-4.6.        *)
(*                                                                         *)
(* Threads: "main" (accept + command loop), one sampler, the observer and  *)
(* the ignition-sequence runners.  Every action is one atomic step of one  *)
(* thread.  A DashChannel::send is one step: it runs under the channel's   *)
(* lock (main.rs shares the channel by reference between threads).         *)
(***************************************************************************)
EXTENDS Integers, Sequences, FiniteSets, TLC

\* ---------------------------------------------------------------- bounds
MaxConns == 2    \* dashboard connections accepted in one run
MaxSends == 2    \* calls of DashChannel::send in one run
MaxCmds == 2    \* commands executed in one run
MaxTries == 4    \* try_transition calls in one run of GuardSpec
MaxCalls == 3    \* calls of DashChannel::send in one run of ChanSpec

\* ------------------------------------------------------------- vocabulary
None == 0                                  \* Option::None of dash_channel
Conns == 1..MaxConns                       \* accepted TcpStreams
Messages == {"Config", "SensorValue", "DriverValue"}
LogFailPoints == {"none", "ts", "msg", "nl"}

States == {"Standby", "PreIgnite", "Ignite"}

\* Configuration (immutable after load): two drivers, driver 0 protected.
Drivers == {0, 1}
Protected == [d \in Drivers |-> d = 0]
\* main.rs requests every driver line with initial value 0; the spec calls
\* the initial level the safe level.
SafeLevel == [d \in Drivers |-> FALSE]

\* The scripted ignition sequence: (offset, action) pairs, in offset order.
IgnitionSequence ==
  << [type |-> "Actuate", driver |-> 0, level |-> TRUE],
     [type |-> "Sleep",   driver |-> 0, level |-> FALSE],
     [type |-> "Actuate", driver |-> 1, level |-> TRUE] >>
\* index of the first step that carries the "ignite" marker
IgniteStep == 2

Commands ==
  {[type |-> "Ready", driver |-> 0, value |-> FALSE],
   [type |-> "Ignition", driver |-> 0, value |-> FALSE],
   [type |-> "EmergencyStop", driver |-> 0, value |-> FALSE]}
  \cup {[type |-> "Actuate", driver |-> d, value |-> v] :
          d \in Drivers, v \in BOOLEAN}

NoCmd == [n |-> 0, type |-> "none", driver |-> 0, value |-> FALSE,
          result |-> "Ok"]

NoSend == [n |-> 0, caller |-> "none", msg |-> "Config", target |-> None,
           write_ok |-> TRUE, log_fail |-> "none", ret |-> "Ok"]

VARIABLES
  dash_channel,  \* DashChannel.dash_channel: None or the installed stream
  message_log,   \* DashChannel.message_log (sent.csv): sequence of tokens
  dash_lock,     \* holder of the lock around dash_channel: "none" | "main"
  delivered,     \* history: <<stream, message>> in the order written
  log_failed,    \* history: some send-log write has failed
  failed_on,     \* history: the streams a write failed on, in order
  last_send,     \* history: the most recent call of send
  pc_main,       \* position of the accept/command thread
  next_conn,     \* next stream the listener yields
  main_result,   \* "running" | "Err": result of the accept loop (the scope body)
  pc_sampler,    \* "sample" | "emit" | "failed"
  pc_observer,   \* "poll" | "emit" | "failed"
  last_known,    \* the observer's last-known driver levels
  state,         \* StateGuard: the ControllerState
  driver_lines,  \* level of each driver GPIO line
  seq_runs,      \* positions of the ignition sequences in flight
  cancel,        \* the cancel flag set by EmergencyStop
  cmd_log,       \* commands.csv: number of rows
  last_cmd,      \* history: the most recent command executed
  guard_trace    \* history of try_transition calls (GuardSpec)

vars == << dash_channel, message_log, dash_lock, delivered, log_failed,
           failed_on, last_send, pc_main, next_conn, main_result, pc_sampler,
           pc_observer, last_known, state, driver_lines, seq_runs, cancel,
           cmd_log, last_cmd, guard_trace >>

chanVars == << dash_channel, message_log, delivered, log_failed, failed_on,
              last_send >>
execVars == << state, driver_lines, seq_runs, cancel, cmd_log, last_cmd >>
prodVars == << pc_sampler, pc_observer, last_known >>

\* =================================================== telemetry channel
new_with_target == [dash_channel |-> 1, message_log |-> << >>]

\* DashChannel::new: no outgoing channel, empty message log.
new == [dash_channel |-> None, message_log |-> << >>]

\* What the three writes of one log row leave in the log when the write at
\* `log_fail` fails: "<nanos>,", then the message, then the newline.
LogRow(msg, log_fail) ==
  CASE log_fail = "none" -> << "ts", msg, "nl" >>
    [] log_fail = "ts"   -> << >>
    [] log_fail = "msg"  -> << "ts" >>
    [] log_fail = "nl"   -> << "ts", msg >>

\* Variants of send used to show that the properties depend on its code.
sendKeepsTarget(ch, log, msg, write_ok, log_fail) ==
  IF ch # None
    THEN IF write_ok
           THEN [ch |-> ch, log |-> log \o LogRow(msg, log_fail),
                 wrote |-> TRUE,
                 ret |-> IF log_fail = "none" THEN "Ok" ELSE "Err"]
           ELSE [ch |-> ch, log |-> log, wrote |-> FALSE, ret |-> "Ok"]
    ELSE [ch |-> ch, log |-> log, wrote |-> FALSE, ret |-> "Ok"]

sendLogsFailedWrite(ch, log, msg, write_ok, log_fail) ==
  IF ch # None
    THEN IF write_ok
           THEN [ch |-> ch, log |-> log \o LogRow(msg, log_fail),
                 wrote |-> TRUE,
                 ret |-> IF log_fail = "none" THEN "Ok" ELSE "Err"]
           ELSE [ch |-> None, log |-> log \o LogRow(msg, "none"),
                 wrote |-> FALSE, ret |-> "Ok"]
    ELSE [ch |-> ch, log |-> log, wrote |-> FALSE, ret |-> "Ok"]

sendSwallowsLogError(ch, log, msg, write_ok, log_fail) ==
  IF ch # None
    THEN IF write_ok
           THEN [ch |-> ch, log |-> log \o LogRow(msg, log_fail),
                 wrote |-> TRUE, ret |-> "Ok"]
           ELSE [ch |-> None, log |-> log, wrote |-> FALSE, ret |-> "Ok"]
    ELSE [ch |-> ch, log |-> log, wrote |-> FALSE, ret |-> "Ok"]

sendFailsOnWriteError(ch, log, msg, write_ok, log_fail) ==
  IF ch # None
    THEN IF write_ok
           THEN [ch |-> ch, log |-> log \o LogRow(msg, log_fail),
                 wrote |-> TRUE,
                 ret |-> IF log_fail = "none" THEN "Ok" ELSE "Err"]
           ELSE [ch |-> None, log |-> log, wrote |-> FALSE, ret |-> "Err"]
    ELSE [ch |-> ch, log |-> log, wrote |-> FALSE, ret |-> "Ok"]

\* DashChannel::send on channel `ch` and log `log`.  write_ok: the write of
\* the serialized message to the subscriber succeeds; log_fail: which of
\* the log writes fails.  The result holds the new channel, the new log,
\* whether the message reached the subscriber, and the value returned.
send(ch, log, msg, write_ok, log_fail) ==
  IF ch # None
    THEN IF write_ok
           THEN [ch |-> ch, log |-> log \o LogRow(msg, log_fail),
                 wrote |-> TRUE,
                 ret |-> IF log_fail = "none" THEN "Ok" ELSE "Err"]
           ELSE [ch |-> None, log |-> log, wrote |-> FALSE, ret |-> "Ok"]
    ELSE [ch |-> ch, log |-> log, wrote |-> FALSE, ret |-> "Ok"]

\* DashChannel::has_target
has_target(ch) == ch # None

set_channel_keeps_old(ch, channel) == IF ch # None THEN ch ELSE channel

\* DashChannel::set_channel: the new value of dash_channel
set_channel(ch, channel) == channel

\* One call of send by `caller`: the channel's variables after it.  An
\* outcome that the call does not reach (a write with no subscriber, a log
\* write after a failed write) is fixed to one value.
SendCall(caller, msg, write_ok, log_fail) ==
  LET out == send(dash_channel, message_log, msg, write_ok, log_fail) IN
  /\ (dash_channel = None \/ ~write_ok) => log_fail = "none"
  /\ dash_channel = None => write_ok
  /\ dash_channel' = out.ch
  /\ failed_on' = IF dash_channel # None /\ ~out.wrote
                    THEN Append(failed_on, dash_channel)
                    ELSE failed_on
  /\ message_log' = out.log
  /\ delivered' = IF out.wrote
                    THEN Append(delivered, << dash_channel, msg >>)
                    ELSE delivered
  /\ log_failed' = (log_failed \/ (out.wrote /\ log_fail # "none"))
  /\ last_send' = [n |-> last_send.n + 1, caller |-> caller, msg |-> msg,
                   target |-> dash_channel, write_ok |-> write_ok,
                   log_fail |-> log_fail, ret |-> out.ret]

\* A call of send by a thread of the program.  The call needs the channel
\* lock, which the command loop may be holding.
SendBy(caller, msg, write_ok, log_fail) ==
  /\ dash_lock = "none"
  /\ last_send.n < MaxSends
  /\ SendCall(caller, msg, write_ok, log_fail)

\* ================================================ controller state guard
\* The transition table of spec.md 4.1 (rows: from, columns: to).
LegalTransitions ==
  { << "Standby", "PreIgnite" >>, << "PreIgnite", "Standby" >>,
    << "PreIgnite", "Ignite" >>,  << "Ignite", "Standby" >> }

try_transition_allows_jump(cur, next) ==
  IF << cur, next >> \in LegalTransitions \cup {<< "Standby", "Ignite" >>}
    THEN [ok |-> TRUE, state |-> next]
    ELSE [ok |-> FALSE, state |-> cur]

\* StateGuard::try_transition: checks (current, next) against the table.
try_transition(cur, next) ==
  IF << cur, next >> \in LegalTransitions
    THEN [ok |-> TRUE, state |-> next]
    ELSE [ok |-> FALSE, state |-> cur]

\* ====================================================== command executor
actuate_unguarded(st, lines, d, v) ==
  [result |-> "Ok", lines |-> [lines EXCEPT ![d] = v]]

\* Actuate{driver_id, value}
actuate(st, lines, d, v) ==
  IF Protected[d] /\ st = "Standby"
    THEN [result |-> "Permission", lines |-> lines]
    ELSE [result |-> "Ok", lines |-> [lines EXCEPT ![d] = v]]

ignition_unchecked(st, runs) ==
  [result |-> "Ok", state |-> "PreIgnite", runs |-> Append(runs, 0)]

\* Ignition: Standby -> PreIgnite and a new sequence at its first step; an
\* IllegalTransition is surfaced as Malformed.
ignition(st, runs) ==
  LET t == try_transition(st, "PreIgnite") IN
  IF t.ok
    THEN [result |-> "Ok", state |-> t.state, runs |-> Append(runs, 0)]
    ELSE [result |-> "Malformed", state |-> st, runs |-> runs]

AllSafe(lines) == \A d \in Drivers : lines[d] = SafeLevel[d]

runner_step_ignores_cancel(pos, st, lines, cancelled) ==
  IF pos = Len(IgnitionSequence)
    THEN [alive |-> FALSE, pos |-> pos,
          state |-> try_transition(st, "Standby").state,
          lines |-> SafeLevel]
    ELSE LET step == IgnitionSequence[pos + 1] IN
         [alive |-> TRUE, pos |-> pos + 1,
          state |-> IF pos + 1 = IgniteStep
                      THEN try_transition(st, "Ignite").state ELSE st,
          lines |-> IF step.type = "Actuate"
                      THEN [lines EXCEPT ![step.driver] = step.level]
                      ELSE lines]

\* One wake of the sequence interpreter at position pos: it polls the
\* cancel flag, and then either stops, finishes the sequence (Standby, all
\* drivers safe) or performs the next step.
runner_step(pos, st, lines, cancelled) ==
  IF cancelled
    THEN [alive |-> FALSE, pos |-> pos, state |-> st, lines |-> lines]
    ELSE IF pos = Len(IgnitionSequence)
      THEN [alive |-> FALSE, pos |-> pos,
            state |-> try_transition(st, "Standby").state,
            lines |-> SafeLevel]
      ELSE LET step == IgnitionSequence[pos + 1] IN
           [alive |-> TRUE, pos |-> pos + 1,
            state |-> IF pos + 1 = IgniteStep
                        THEN try_transition(st, "Ignite").state ELSE st,
            lines |-> IF step.type = "Actuate"
                        THEN [lines EXCEPT ![step.driver] = step.level]
                        ELSE lines]

RemoveAt(s, i) == SubSeq(s, 1, i - 1) \o SubSeq(s, i + 1, Len(s))

\* A step of the i-th ignition sequence in flight.
RunnerStep(i) ==
  LET r == runner_step(seq_runs[i], state, driver_lines, cancel) IN
  /\ i \in 1..Len(seq_runs)
  /\ state' = r.state
  /\ driver_lines' = r.lines
  /\ seq_runs' = IF r.alive THEN [seq_runs EXCEPT ![i] = r.pos]
                            ELSE RemoveAt(seq_runs, i)
  /\ UNCHANGED << chanVars, dash_lock, pc_main, next_conn, main_result,
                  prodVars, cancel, cmd_log, last_cmd, guard_trace >>

RunnerSteps == \E i \in 1..Len(seq_runs) : RunnerStep(i)

\* ============================================================ producers
\* Sampler, step 4 of its loop: emit only when the channel has a target.
\* has_target takes the channel lock, like send.
SamplerCheck ==
  /\ pc_sampler = "sample"
  /\ dash_lock = "none"
  /\ has_target(dash_channel)
  /\ pc_sampler' = "emit"
  /\ UNCHANGED << chanVars, dash_lock, pc_main, next_conn, main_result,
                  pc_observer, last_known, execVars, guard_trace >>

\* The sampler sends SensorValue; an error of send ends the thread.
SamplerEmit ==
  /\ pc_sampler = "emit"
  /\ \E write_ok \in BOOLEAN, log_fail \in LogFailPoints :
       SendBy("sampler", "SensorValue", write_ok, log_fail)
  /\ pc_sampler' = IF last_send'.ret = "Err" THEN "failed" ELSE "sample"
  /\ UNCHANGED << dash_lock, pc_main, next_conn, main_result, pc_observer,
                  last_known, execVars, guard_trace >>

\* Observer tick: a driver level differs from the last-known vector.
ObserverTick ==
  /\ pc_observer = "poll"
  /\ driver_lines # last_known
  /\ last_known' = driver_lines
  /\ pc_observer' = "emit"
  /\ UNCHANGED << chanVars, dash_lock, pc_main, next_conn, main_result,
                  pc_sampler, execVars, guard_trace >>

\* The observer sends DriverValue; an error of send ends the thread.
ObserverEmit ==
  /\ pc_observer = "emit"
  /\ \E write_ok \in BOOLEAN, log_fail \in LogFailPoints :
       SendBy("observer", "DriverValue", write_ok, log_fail)
  /\ pc_observer' = IF last_send'.ret = "Err" THEN "failed" ELSE "poll"
  /\ UNCHANGED << dash_lock, pc_main, next_conn, main_result, pc_sampler,
                  last_known, execVars, guard_trace >>

\* ========================================================= orchestrator
\* main.rs 227-239: `handle_client(..)?` - an Err of handle_client leaves
\* the accept loop (and the thread scope's closure) with that error.
after_handle_client(ret) == IF ret = "Err" THEN "exited" ELSE "accept"

after_command_fatal(result) == IF result = "Ok" THEN "loop" ELSE "return Err"

\* main.rs 299-311: an error of handle_command is written to the console
\* log and the loop goes on with its next iteration.
after_command(result) == "loop"

\* Where the main thread is after handle_client's loop did `todo`:
\* "loop" (next iteration), "return Ok" or "return Err".
MainAfter(todo) ==
  CASE todo = "loop"       -> "loop"
    [] todo = "return Ok"  -> after_handle_client("Ok")
    [] todo = "return Err" -> after_handle_client("Err")

\* An orchestrator that also accepts while a command loop is between two
\* iterations.
AcceptDuringLoop ==
  /\ pc_main \in {"accept", "loop"}
  /\ next_conn <= MaxConns
  /\ dash_lock = "none"
  /\ dash_channel' = set_channel(dash_channel, next_conn)
  /\ next_conn' = next_conn + 1
  /\ pc_main' = IF pc_main = "accept" THEN "config" ELSE pc_main
  /\ UNCHANGED << message_log, delivered, log_failed, failed_on, last_send,
                  dash_lock, main_result, prodVars, execVars, guard_trace >>

\* main.rs 214-225: the listener yields a stream, which is installed.
Accept ==
  /\ pc_main = "accept"
  /\ next_conn <= MaxConns
  /\ dash_lock = "none"
  /\ dash_channel' = set_channel(dash_channel, next_conn)
  /\ next_conn' = next_conn + 1
  /\ pc_main' = "config"
  /\ UNCHANGED << message_log, delivered, log_failed, failed_on, last_send,
                  dash_lock, main_result, prodVars, execVars, guard_trace >>

\* A handle_client that sends Config again when its first send succeeded.
SendConfigRepeats ==
  /\ pc_main = "config"
  /\ \E write_ok \in BOOLEAN, log_fail \in LogFailPoints :
       SendBy("main", "Config", write_ok, log_fail)
  /\ pc_main' = IF last_send'.ret = "Err" THEN MainAfter("return Err")
                ELSE IF last_send.msg = "Config" /\ last_send.n > 0
                       THEN "loop" ELSE "config"
  /\ main_result' = IF pc_main' = "exited" THEN "Err" ELSE main_result
  /\ UNCHANGED << dash_lock, next_conn, prodVars, execVars, guard_trace >>

\* main.rs 271: `to_dash.send(&Message::Config { config })?`
SendConfig ==
  /\ pc_main = "config"
  /\ \E write_ok \in BOOLEAN, log_fail \in LogFailPoints :
       SendBy("main", "Config", write_ok, log_fail)
  /\ pc_main' = IF last_send'.ret = "Err" THEN MainAfter("return Err")
                                           ELSE "loop"
  /\ main_result' = IF pc_main' = "exited" THEN "Err" ELSE main_result
  /\ UNCHANGED << dash_lock, next_conn, prodVars, execVars, guard_trace >>

\* main.rs 273-277: the top of the loop takes the write lock of the
\* channel, which it holds to the end of the iteration.
LoopTop ==
  /\ pc_main = "loop"
  /\ dash_lock = "none"
  /\ IF dash_channel = None
       THEN pc_main' = MainAfter("return Ok") /\ dash_lock' = "none"
       ELSE pc_main' = "parse" /\ dash_lock' = "main"
  /\ main_result' = IF pc_main' = "exited" THEN "Err" ELSE main_result
  /\ UNCHANGED << chanVars, next_conn, prodVars, execVars, guard_trace >>

\* main.rs 278-297: Command::parse returns a ParseError.
ParseError(kind) ==
  /\ pc_main = "parse"
  /\ pc_main' = CASE kind = "SourceClosed" -> MainAfter("return Ok")
                  [] kind = "Malformed"    -> MainAfter("loop")
                  [] kind = "Io"           -> MainAfter("return Err")
  /\ dash_lock' = "none"
  /\ main_result' = IF pc_main' = "exited" THEN "Err" ELSE main_result
  /\ UNCHANGED << chanVars, next_conn, prodVars, execVars, guard_trace >>

ParseSourceClosed == ParseError("SourceClosed")
ParseMalformed == ParseError("Malformed")
ParseIo == ParseError("Io")

\* main.rs 278-312 with handle_command: a command is parsed and executed.
\* logged: the append of the command to commands.csv succeeds.
ExecCommand(cmd, logged) ==
  LET a == actuate(state, driver_lines, cmd.driver, cmd.value)
      g == ignition(state, seq_runs)
      result == CASE ~logged                -> "Io"
                  [] cmd.type = "Actuate"   -> a.result
                  [] cmd.type = "Ignition"  -> g.result
                  [] OTHER                  -> "Ok"
      estop == logged /\ cmd.type = "EmergencyStop"
  IN
  /\ pc_main = "parse"
  /\ last_cmd.n < MaxCmds
  /\ cmd_log' = IF logged THEN cmd_log + 1 ELSE cmd_log
  /\ driver_lines' = IF logged /\ cmd.type = "Actuate" THEN a.lines
                                                       ELSE driver_lines
  /\ state' = IF logged /\ cmd.type = "Ignition" THEN g.state ELSE state
  /\ seq_runs' = IF logged /\ cmd.type = "Ignition" THEN g.runs
                                                     ELSE seq_runs
  /\ cancel' = IF estop THEN seq_runs # << >> ELSE cancel
  /\ last_cmd' = [n |-> last_cmd.n + 1, type |-> cmd.type,
                  driver |-> cmd.driver, value |-> cmd.value,
                  result |-> IF estop THEN "Pending" ELSE result]
  /\ pc_main' = IF estop THEN "estop" ELSE MainAfter(after_command(result))
  /\ dash_lock' = IF pc_main' = "estop" THEN "main" ELSE "none"
  /\ main_result' = IF pc_main' = "exited" THEN "Err" ELSE main_result
  /\ UNCHANGED << chanVars, next_conn, prodVars, guard_trace >>

\* EmergencyStop, once no sequence is in flight any more: every driver to
\* its safe level, then the state is forced to Standby.
EStopFinish ==
  /\ pc_main = "estop"
  /\ seq_runs = << >>
  /\ driver_lines' = SafeLevel
  /\ state' = "Standby"
  /\ cancel' = FALSE
  /\ last_cmd' = [last_cmd EXCEPT !.result = "Ok"]
  /\ pc_main' = MainAfter(after_command("Ok"))
  /\ dash_lock' = "none"
  /\ main_result' = IF pc_main' = "exited" THEN "Err" ELSE main_result
  /\ UNCHANGED << chanVars, next_conn, prodVars, seq_runs, cmd_log,
                  guard_trace >>

\* ======================================================= specifications
Init ==
  /\ dash_channel = new.dash_channel
  /\ message_log = new.message_log
  /\ dash_lock = "none"
  /\ delivered = << >>
  /\ log_failed = FALSE
  /\ failed_on = << >>
  /\ last_send = NoSend
  /\ pc_main = "accept"
  /\ next_conn = 1
  /\ main_result = "running"
  /\ pc_sampler = "sample"
  /\ pc_observer = "poll"
  /\ last_known = SafeLevel
  /\ state = "Standby"
  /\ driver_lines = [d \in Drivers |-> FALSE]
  /\ seq_runs = << >>
  /\ cancel = FALSE
  /\ cmd_log = 0
  /\ last_cmd = NoCmd
  /\ guard_trace = << >>

Next ==
  \/ Accept
  \/ SendConfig
  \/ LoopTop
  \/ ParseSourceClosed
  \/ ParseMalformed
  \/ ParseIo
  \/ \E cmd \in Commands, logged \in BOOLEAN : ExecCommand(cmd, logged)
  \/ EStopFinish
  \/ RunnerSteps
  \/ SamplerCheck
  \/ SamplerEmit
  \/ ObserverTick
  \/ ObserverEmit

Spec == Init /\ [][Next]_vars

\* The sequence interpreter and the command thread are OS threads that are
\* scheduled whenever they can run.
FairSpec == Spec /\ WF_vars(RunnerSteps) /\ WF_vars(EStopFinish)

\* main.rs 172-243: std::thread::scope returns once its closure (the accept
\* loop) has returned and every thread spawned in it has finished; main
\* then returns the closure's result, which becomes the process result.
scope_returned ==
  /\ pc_main = "exited"
  /\ pc_sampler = "failed"
  /\ pc_observer = "failed"

process_result == IF scope_returned THEN main_result ELSE "running"

\* try_transition applied to every requested state, from Standby on.
GuardTry(next) ==
  LET t == try_transition(state, next) IN
  /\ Len(guard_trace) < MaxTries
  /\ state' = t.state
  /\ guard_trace' = Append(guard_trace,
                           [from |-> state, to |-> next, ok |-> t.ok])
  /\ UNCHANGED << chanVars, dash_lock, pc_main, next_conn, main_result,
                  prodVars, driver_lines, seq_runs, cancel, cmd_log,
                  last_cmd >>

GuardNext == \E next \in States : GuardTry(next)

GuardSpec == Init /\ [][GuardNext]_vars

\* The channel alone, under every sequence of set_channel and send calls:
\* each set_channel installs a fresh stream, each send is made by the thread
\* that sends that kind of message, with every outcome of its writes.
CallerOf(msg) ==
  CASE msg = "Config"      -> "main"
    [] msg = "SensorValue" -> "sampler"
    [] msg = "DriverValue" -> "observer"

ChanSetChannel ==
  /\ next_conn <= MaxConns
  /\ dash_channel' = set_channel(dash_channel, next_conn)
  /\ next_conn' = next_conn + 1
  /\ UNCHANGED << message_log, delivered, log_failed, failed_on, last_send,
                  dash_lock, pc_main, main_result, prodVars, execVars,
                  guard_trace >>

ChanSend ==
  /\ last_send.n < MaxCalls
  /\ \E msg \in Messages, write_ok \in BOOLEAN, log_fail \in LogFailPoints :
       SendCall(CallerOf(msg), msg, write_ok, log_fail)
  /\ UNCHANGED << dash_lock, pc_main, next_conn, main_result, prodVars,
                  execVars, guard_trace >>

ChanNext == ChanSetChannel \/ ChanSend

ChanSpec == Init /\ [][ChanNext]_vars

\* =============================================================== claims
\* A send happens in this step.
SendStep == last_send'.n = last_send.n + 1
\* A command is executed in this step; Logged: it was appended to
\* commands.csv.
CommandStep == last_cmd'.n = last_cmd.n + 1
LoggedCommandStep == CommandStep /\ cmd_log' = cmd_log + 1

\* C1: for every accepted connection, the first message written to the
\* newly installed subscriber is a Config message.
C1_FirstMessageIsConfig ==
  \A i \in 1..Len(delivered) :
    (\A j \in 1..(i - 1) : delivered[j][1] # delivered[i][1])
      => delivered[i][2] = "Config"

\* C2: a send whose write to the installed subscriber fails clears the
\* subscriber, appends nothing to the send log and returns success.
C2_FailedWriteClearsSubscriber ==
  [][(SendStep /\ has_target(dash_channel) /\ ~last_send'.write_ok)
       => /\ ~has_target(dash_channel')
          /\ message_log' = message_log
          /\ last_send'.ret = "Ok"]_vars

C2_Witness ==
  /\ last_send.n > 0
  /\ last_send.target # None
  /\ ~last_send.write_ok
  /\ dash_channel = None

\* The rows of the send log, as a reader of sent.csv splits them.
RECURSIVE LogRows(_)
LogRows(log) ==
  IF log = << >> THEN << >>
  ELSE IF Len(log) >= 3 /\ log[1] = "ts" /\ log[3] = "nl"
    THEN << log[2] >> \o LogRows(SubSeq(log, 4, Len(log)))
    ELSE << "incomplete row" >>

\* C3: while no send-log write has failed, the send log holds exactly the
\* messages that reached a subscriber, one row each, in the order written.
C3_LogMatchesDelivered ==
  ~log_failed =>
    LogRows(message_log) = [i \in 1..Len(delivered) |-> delivered[i][2]]

C3_Witness ==
  /\ ~log_failed
  /\ Len(delivered) = 2
  /\ delivered[1][2] # delivered[2][2]

\* C4: a send that delivered its message and whose send-log write fails
\* returns an error.
C4_LogFailureIsReturned ==
  [][(SendStep /\ has_target(dash_channel) /\ last_send'.write_ok
        /\ last_send'.log_fail # "none")
       => /\ last_send'.ret = "Err"
          /\ delivered' = Append(delivered,
                                 << dash_channel, last_send'.msg >>)]_vars

C4_Witness ==
  /\ last_send.target # None
  /\ last_send.write_ok
  /\ last_send.log_fail # "none"

\* C5: after the command parser reports an I/O error the orchestrator is
\* back in the accept loop.
C5_IoErrorReturnsToAccept ==
  [][ParseIo => (pc_main' = "accept" /\ main_result' = "running")]_vars

\* C6 as stated: a command that fails because the command log cannot be
\* written stops the command loop with that error.
C6_CommandLogErrorStopsLoop ==
  [][(CommandStep /\ last_cmd'.result = "Io") => pc_main' = "exited"]_vars

\* C6 as amended: a command that fails because the command log cannot be
\* written does not stop the command loop: the loop goes on with its next
\* iteration and the accept loop keeps running.
C6_CommandLogErrorContinues ==
  [][(CommandStep /\ last_cmd'.result = "Io")
       => (pc_main' = "loop" /\ main_result' = main_result)]_vars

C6_Witness ==
  /\ last_cmd.result = "Io"
  /\ pc_main = "parse"
  /\ main_result = "running"

StateAfter(i) ==
  IF i = Len(guard_trace) THEN state ELSE guard_trace[i + 1].from

\* C8: the state starts as Standby; try_transition succeeds exactly for
\* Standby->PreIgnite, PreIgnite->Standby, PreIgnite->Ignite and
\* Ignite->Standby, and otherwise leaves the state unchanged; Ignite is
\* entered only from PreIgnite.
C8_TransitionTable ==
  /\ IF guard_trace = << >> THEN state = "Standby"
                            ELSE guard_trace[1].from = "Standby"
  /\ \A i \in 1..Len(guard_trace) :
       LET t == guard_trace[i] IN
       /\ t.ok <=> \/ (t.from = "Standby" /\ t.to = "PreIgnite")
                   \/ (t.from = "PreIgnite" /\ t.to = "Standby")
                   \/ (t.from = "PreIgnite" /\ t.to = "Ignite")
                   \/ (t.from = "Ignite" /\ t.to = "Standby")
       /\ StateAfter(i) = IF t.ok THEN t.to ELSE t.from
       /\ (StateAfter(i) = "Ignite" /\ t.from # "Ignite")
            => t.from = "PreIgnite"

C8_Witness ==
  /\ \E i \in 1..Len(guard_trace) :
       guard_trace[i] = [from |-> "Standby", to |-> "Ignite", ok |-> FALSE]
  /\ \E i \in 1..Len(guard_trace) :
       guard_trace[i] = [from |-> "PreIgnite", to |-> "Ignite", ok |-> TRUE]

C11_MalformedGetsErrorReply ==
  [][ParseMalformed => /\ SendStep
                       /\ last_send'.msg = "Error"
                       /\ pc_main' = "loop"]_vars

\* C12: every Ready command that is executed makes the controller send a
\* Ready message to the telemetry channel and leaves the controller state
\* and the driver levels unchanged.
C12_ReadyGetsReadyReply ==
  [][(LoggedCommandStep /\ last_cmd'.type = "Ready")
       => /\ SendStep
          /\ last_send'.msg = "Ready"
          /\ state' = state
          /\ driver_lines' = driver_lines]_vars

C14_OneSubscriber ==
  /\ [](dash_channel \in {None, next_conn - 1})
  /\ [][Accept => dash_channel' = next_conn]_vars
  /\ [][delivered' # delivered
          => delivered' = Append(delivered,
                                 << next_conn - 1, last_send'.msg >>)]_vars
  /\ [](\A i, j \in 1..Len(delivered) :
          i < j => delivered[i][1] <= delivered[j][1])

\* The second stream replaced the first while it was still installed (no
\* write had failed), and each received a message.
C14_Witness ==
  /\ failed_on = << >>
  /\ Len(delivered) = 2
  /\ delivered[1][1] = 1
  /\ delivered[2][1] = 2

C16_LoopEndClearsSubscriber ==
  [][(ParseSourceClosed \/ ParseIo) => ~has_target(dash_channel')]_vars

\* C18: while the command loop waits for the next command of a connected
\* dashboard, a producer that is about to send can do so.
C18_ProducersSendWhileWaiting ==
  (pc_main = "parse" /\ last_send.n < MaxSends)
    => /\ pc_sampler = "emit" => ENABLED SamplerEmit
       /\ pc_observer = "emit" => ENABLED ObserverEmit

\* C19: once the accept/command loop has returned an error, the process
\* terminates with that error as its result.
C19_FatalErrorTerminates ==
  (main_result = "Err") ~> (process_result = "Err")

\* C17: a send whose write fails empties the slot in the same step, so the
\* next send, whoever makes it, finds no target and attempts no write: no
\* installed stream ever has more than one failed write.
C17_OneFailedWritePerWriter ==
  /\ [][(SendStep /\ has_target(dash_channel) /\ ~last_send'.write_ok)
          => /\ ~has_target(dash_channel')
             /\ failed_on' = Append(failed_on, dash_channel)]_vars
  /\ [][(SendStep /\ ~has_target(dash_channel))
          => (failed_on' = failed_on /\ delivered' = delivered)]_vars
  /\ [](\A i, j \in 1..Len(failed_on) :
          failed_on[i] = failed_on[j] => i = j)

\* Two sends on the first stream: the write of one failed, then the
\* observer's send found no target.
C17_Witness ==
  /\ next_conn = 2
  /\ last_send.n = 2
  /\ failed_on = << 1 >>
  /\ last_send.caller = "observer"
  /\ last_send.target = None

\* C20: has_target is true exactly when set_channel has been called and
\* no write has failed on the stream it installed last; a send that finds
\* no subscriber changes neither the slot nor the log and returns Ok.
C20_HasTargetTracksCalls ==
  /\ [](has_target(dash_channel)
          <=> /\ next_conn > 1
              /\ \A i \in 1..Len(failed_on) : failed_on[i] # next_conn - 1)
  /\ [][(SendStep /\ ~has_target(dash_channel))
          => /\ dash_channel' = dash_channel
             /\ message_log' = message_log
             /\ delivered' = delivered
             /\ last_send'.ret = "Ok"]_vars

\* A stream was installed, a write on it failed, a second stream was
\* installed, and a send delivered a message to it.
C20_Witness ==
  /\ next_conn = 3
  /\ failed_on = << 1 >>
  /\ has_target(dash_channel)
  /\ Len(delivered) > 0
  /\ delivered[Len(delivered)][1] = 2

\* A call of handle_client is running: it is about to send Config, or its
\* command loop is at or inside an iteration.
InHandleClient == pc_main \in {"config", "loop", "parse", "estop"}

\* C21: clients are served one at a time: a stream is accepted and
\* installed only while the orchestrator waits in accept, that is after
\* the previous client's handle_client has returned; while a handle_client
\* runs the subscriber is never replaced by another stream (it can only
\* be cleared).
C21_OneClientAtATime ==
  /\ [][next_conn' # next_conn
          => (pc_main = "accept" /\ pc_main' = "config"
                /\ dash_channel' = next_conn)]_vars
  /\ [][InHandleClient => dash_channel' \in {dash_channel, None}]_vars
  /\ [](InHandleClient => dash_channel \in {None, next_conn - 1})

\* The second client is installed and in its command loop, after the
\* first client's loop executed a command and ended.
C21_Witness ==
  /\ next_conn = 3
  /\ dash_channel = 2
  /\ pc_main = "parse"
  /\ last_cmd.n = 1
  /\ delivered = << << 1, "Config" >>, << 2, "Config" >> >>

====
